---- MODULE Spec2Model ----
(***************************************************************************)
(* Simulated addressing layer of turmoil: the name registry (Dns), the     *)
(* resolution capabilities (ToIpAddr, ToIpAddrs, ToSocketAddrs) and the    *)
(* UDP endpoint (UdpSocket).                                               *)
(*                                                                         *)
(* Strings are sequences of one-character strings, so that parsing is      *)
(* computed character by character.  An IP address is a record             *)
(* [v |-> 4, b |-> <<a, b, c, d>>] or [v |-> 6, b |-> <<g1, ..., g8>>]; a  *)
(* socket address is [ip |-> IP, port |-> 0..65535].  An Option or a       *)
(* panicking call is a sequence: <<>> for None / panic, <<x>> for Some(x)  *)
(* / a returned x.                                                         *)
(***************************************************************************)
EXTENDS Integers, Sequences, FiniteSets, TLC

\* ------------------------------------------------------------------------
\* Bounds of the model
\* ------------------------------------------------------------------------

\* at most this many hostnames are inserted during one behaviour
MaxNames == 3

\* at most this many sockets are bound during one behaviour
MaxSockets == 1

\* at most this many envelopes are sent during one behaviour
MaxSent == 1

\* this many tasks call recv_from
MaxTasks == 2

\* at most this many envelopes are enqueued on the sockets during one
\* behaviour
MaxQueued == 2

\* at most this many socket pairs are made during one behaviour
MaxPairs == 2


\* ------------------------------------------------------------------------
\* Program constants
\* ------------------------------------------------------------------------

\* number of values of `next: u16`
U16 == 65536

\* number of values of a u8 octet (`as u8`, `& 0xFF`, `>> 8`)
U8 == 256

\* ------------------------------------------------------------------------
\* Text
\* ------------------------------------------------------------------------

Digit == {"0", "1", "2", "3", "4", "5", "6", "7", "8", "9"}

DigitVal(c) ==
    CASE c = "0" -> 0 [] c = "1" -> 1 [] c = "2" -> 2 [] c = "3" -> 3
      [] c = "4" -> 4 [] c = "5" -> 5 [] c = "6" -> 6 [] c = "7" -> 7
      [] c = "8" -> 8 [] c = "9" -> 9

DigitChar(d) ==
    CASE d = 0 -> "0" [] d = 1 -> "1" [] d = 2 -> "2" [] d = 3 -> "3"
      [] d = 4 -> "4" [] d = 5 -> "5" [] d = 6 -> "6" [] d = 7 -> "7"
      [] d = 8 -> "8" [] d = 9 -> "9"

IsDigits(s) == Len(s) > 0 /\ \A i \in 1..Len(s) : s[i] \in Digit

RECURSIVE NumVal(_)
\* value of a non-empty string of decimal digits
NumVal(s) ==
    IF Len(s) = 0 THEN 0
    ELSE 10 * NumVal(SubSeq(s, 1, Len(s) - 1)) + DigitVal(s[Len(s)])

RECURSIVE Dec(_)
\* Display of an unsigned integer: its decimal numeral
Dec(n) ==
    IF n < 10 THEN <<DigitChar(n)>>
    ELSE Append(Dec(n \div 10), DigitChar(n % 10))

\* positions of character c in s
Positions(s, c) == {i \in 1..Len(s) : s[i] = c}

Max(S) == CHOOSE x \in S : \A y \in S : y <= x

Min(S) == CHOOSE x \in S : \A y \in S : x <= y

\* str::rsplit_once(':'): the text before and after the last ':'
RSplitOnce(s, c) ==
    IF Positions(s, c) = {} THEN <<>>
    ELSE LET i == Max(Positions(s, c))
         IN  <<[host |-> SubSeq(s, 1, i - 1), port |-> SubSeq(s, i + 1, Len(s))]>>

\* the text before and after the first c
SplitOnce(s, c) ==
    IF Positions(s, c) = {} THEN <<>>
    ELSE LET i == Min(Positions(s, c))
         IN  <<[head |-> SubSeq(s, 1, i - 1), tail |-> SubSeq(s, i + 1, Len(s))]>>

\* <u16 as FromStr>::from_str: an optional '+', then digits, value below 2^16
ParseU16(s) ==
    LET d == IF Len(s) > 0 /\ s[1] = "+" THEN Tail(s) ELSE s
    IN  IF IsDigits(d) /\ NumVal(d) < U16 THEN <<NumVal(d)>> ELSE <<>>

\* the port of a socket address text: digits only, value below 2^16
ParsePort(s) ==
    IF IsDigits(s) /\ NumVal(s) < U16 THEN <<NumVal(s)>> ELSE <<>>

\* ------------------------------------------------------------------------
\* std::net addresses
\* ------------------------------------------------------------------------

V4(a, b, c, d) == [v |-> 4, b |-> <<a, b, c, d>>]

\* the IPv6 address ::x (seven zero groups, then x)
V6(x) == [v |-> 6, b |-> <<0, 0, 0, 0, 0, 0, 0, x>>]

SockAddr(ip, port) == [ip |-> ip, port |-> port]

\* IpAddr::is_unspecified: 0.0.0.0 or ::
IsUnspecified(ip) == \A i \in 1..Len(ip.b) : ip.b[i] = 0

\* IpAddr::is_loopback: 127.0.0.0/8 or ::1
IsLoopback(ip) ==
    IF ip.v = 4 THEN ip.b[1] = 127 ELSE ip = V6(1)

\* the ascending sequence of the positions of c in s
SortedPositions(s, c) ==
    LET P == Positions(s, c)
    IN  [k \in 1..Cardinality(P) |->
            CHOOSE i \in P : Cardinality({j \in P : j < i}) = k - 1]

\* one decimal octet: one to three digits, no leading zero, at most 255
IsOctet(s) ==
    /\ IsDigits(s)
    /\ Len(s) <= 3
    /\ (Len(s) > 1 => s[1] # "0")
    /\ NumVal(s) < U8

\* "a.b.c.d".parse::<Ipv4Addr>()
ParseIpv4(s) ==
    LET p == SortedPositions(s, ".")
    IN  IF Len(p) # 3 THEN <<>>
        ELSE LET o1 == SubSeq(s, 1, p[1] - 1)
                 o2 == SubSeq(s, p[1] + 1, p[2] - 1)
                 o3 == SubSeq(s, p[2] + 1, p[3] - 1)
                 o4 == SubSeq(s, p[3] + 1, Len(s))
             IN  IF IsOctet(o1) /\ IsOctet(o2) /\ IsOctet(o3) /\ IsOctet(o4)
                 THEN <<V4(NumVal(o1), NumVal(o2), NumVal(o3), NumVal(o4))>>
                 ELSE <<>>

\* "::" or "::d...".parse::<Ipv6Addr>(): the compressed forms with at most
\* one (decimal-digit) group after the "::"; other forms do not occur in the
\* texts the model resolves
ParseIpv6(s) ==
    IF Len(s) >= 2 /\ s[1] = ":" /\ s[2] = ":"
    THEN LET g == SubSeq(s, 3, Len(s))
         IN  IF Len(g) = 0 THEN <<V6(0)>>
             ELSE IF IsDigits(g) /\ Len(g) <= 4
                  THEN <<V6(DigitVal(g[Len(g)])
                            + (IF Len(g) >= 2 THEN 16 * DigitVal(g[Len(g) - 1]) ELSE 0)
                            + (IF Len(g) >= 3 THEN 256 * DigitVal(g[Len(g) - 2]) ELSE 0)
                            + (IF Len(g) >= 4 THEN 4096 * DigitVal(g[Len(g) - 3]) ELSE 0))>>
                  ELSE <<>>
    ELSE <<>>

\* str.parse::<IpAddr>()
ParseIpAddr(s) ==
    IF ParseIpv4(s) # <<>> THEN ParseIpv4(s) ELSE ParseIpv6(s)

\* str.parse::<SocketAddr>(): "a.b.c.d:port" or "[v6]:port"
ParseSocketAddr(s) ==
    IF Len(s) > 0 /\ s[1] = "["
    THEN LET close == Positions(s, "]")
         IN  IF close = {} THEN <<>>
             ELSE LET j    == Min(close)
                      ip   == ParseIpv6(SubSeq(s, 2, j - 1))
                      port == ParsePort(SubSeq(s, j + 2, Len(s)))
                  IN  IF j < Len(s) /\ s[j + 1] = ":" /\ ip # <<>> /\ port # <<>>
                      THEN <<SockAddr(ip[1], port[1])>>
                      ELSE <<>>
    ELSE LET sp == SplitOnce(s, ":")
         IN  IF sp = <<>> THEN <<>>
             ELSE LET ip   == ParseIpv4(sp[1].head)
                      port == ParsePort(sp[1].tail)
                  IN  IF ip # <<>> /\ port # <<>>
                      THEN <<SockAddr(ip[1], port[1])>>
                      ELSE <<>>

\* ------------------------------------------------------------------------
\* Name registry (Dns)
\*
\* dns = [next |-> u16, filled |-> n, names |-> <<[name, ip], ...>>] stands
\* for the registry whose IndexMap holds, in insertion order, the entries
\* "1" -> IpOf(1), ..., "n" -> IpOf(n) (hostnames that are the decimal
\* numerals of 1..n, inserted by n first lookups) followed by the entries
\* of `names`.  n is 0 in a fresh registry.
\* ------------------------------------------------------------------------

VARIABLES
    dns,            \* the registry (world.dns)
    overflowChecks, \* whether the build panics on integer overflow
    ret,            \* the last registry call: [op, arg, val, pre, known]
    order,          \* history: hostnames in the order lookup first returned them
    first,          \* history: the address lookup first returned for a hostname
    running,        \* whether a simulation (World) is set
    current,        \* the address of the active host (world.current)
    binds,          \* per host address, the addresses bound on host.udp
    sockets,        \* the UdpSocket values, by index
    sent,           \* the envelopes handed to world.send_message, in order
    io,             \* the last socket call: [op, sock, arg, buf, val, pre]
    rx,             \* per socket, its Mutex<mpsc::Receiver>: [queue, holder, waiters]
    tasks,          \* per task, where its recv_from call stands: [pc, sock, buf]
    hist,           \* history, per socket: envelopes enqueued and returned, in order
    delivered,      \* the indexes of the sent envelopes that were routed
    dropped,        \* the indexes of the sockets that were dropped
    unbinds,        \* history: the host.udp.unbind calls, in order
    prebound,       \* how many sockets were bound before the behaviour began
    pairs           \* the SocketPair values that were made

dnsVars == <<dns, overflowChecks, ret, order, first>>

\* the state of the receive side, of socket teardown and of the socket pairs
netVars == <<rx, tasks, hist, delivered, dropped, unbinds, prebound, pairs>>

udpVars == <<running, current, binds, sockets, sent, io, netVars>>

vars == <<dns, overflowChecks, ret, order, first,
          running, current, binds, sockets, sent, io,
          rx, tasks, hist, delivered, dropped, unbinds, prebound, pairs>>

\* a task that is not inside recv_from
IdleTask == [pc |-> "idle", sock |-> 0, buf |-> <<>>]

\* no socket was bound, no task is receiving and no pair was made
InitNet ==
    /\ rx = <<>>
    /\ tasks = [t \in 1..MaxTasks |-> IdleTask]
    /\ hist = <<>>
    /\ delivered = {}
    /\ dropped = {}
    /\ unbinds = <<>>
    /\ prebound = 0
    /\ pairs = {}

\* Ipv4Addr::new(192, 168, (host >> 8) as u8, (host & 0xFF) as u8)
IpOf(host) == V4(192, 168, (host \div U8) % U8, host % U8)

\* Dns::new
DnsNew == [next |-> 1, filled |-> 0, names |-> <<>>]

\* the registry after lookup("1"), lookup("2"), ..., lookup(Dec(n)) on DnsNew
DnsFilled(n) == [next |-> n + 1, filled |-> n, names |-> <<>>]

\* the number n when s is the decimal numeral of n >= 1, else 0
NumeralOf(s) ==
    IF IsDigits(s) /\ s[1] # "0" /\ Len(s) <= 5 THEN NumVal(s) ELSE 0

\* the 16-bit host number of a 192.168.a.b address, else -1
HostOf(ip) ==
    IF ip.v = 4 /\ ip.b[1] = 192 /\ ip.b[2] = 168 THEN ip.b[3] * U8 + ip.b[4]
    ELSE -1

\* IndexMap::len
NamesLen(d) == d.filled + Len(d.names)

\* the i-th entry of the IndexMap in insertion order
NamesAt(d, i) ==
    IF i <= d.filled THEN [name |-> Dec(i), ip |-> IpOf(i)]
    ELSE d.names[i - d.filled]

\* IndexMap::get: Some(ip) or None
NamesGet(d, h) ==
    IF 1 <= NumeralOf(h) /\ NumeralOf(h) <= d.filled THEN <<IpOf(NumeralOf(h))>>
    ELSE LET hit == {i \in 1..Len(d.names) : d.names[i].name = h}
         IN  IF hit = {} THEN <<>> ELSE <<d.names[Min(hit)].ip>>

\* the indexes, in insertion order, of the entries whose address is ip
\* (among the numeral entries only entry HostOf(ip) can have address ip)
NamesWithIp(d, ip) ==
    {i \in {HostOf(ip)} : 1 <= i /\ i <= d.filled /\ IpOf(i) = ip}
        \cup {d.filled + i : i \in {j \in 1..Len(d.names) : d.names[j].ip = ip}}

\* Dns::reverse: the name of the first entry whose address is addr; panics
\* when there is none
DnsReverse(d, addr) ==
    IF NamesWithIp(d, addr) = {} THEN <<>>
    ELSE <<NamesAt(d, Min(NamesWithIp(d, addr))).name>>

\* `dns.next += 1` on a u16: past 65535 the build with overflow checks
\* panics (<<>>), the build without wraps to 0
NextPlusOne(next, checks) ==
    IF next + 1 < U16 THEN <<next + 1>>
    ELSE IF checks THEN <<>> ELSE <<(next + 1) % U16>>

\* StrToIpAddr with names.insert(name, allocate()) in place of
\* entry(name).or_insert_with(allocate): a known name is allocated again
StrToIpAddr_Reinserts(d, h, checks) ==
    LET host == d.next
        bump == NextPlusOne(d.next, checks)
        hit  == {i \in 1..Len(d.names) : d.names[i].name = h}
    IN  IF bump = <<>> THEN [dns |-> d, val |-> <<>>]
        ELSE IF hit = {}
             THEN [dns |-> [d EXCEPT !.next = bump[1],
                                     !.names = Append(@, [name |-> h, ip |-> IpOf(host)])],
                   val |-> <<IpOf(host)>>]
             ELSE [dns |-> [d EXCEPT !.next = bump[1],
                                     !.names[Min(hit)].ip = IpOf(host)],
                   val |-> <<IpOf(host)>>]

\* StrToIpAddr with `dns.next += 1` outside the closure: the counter advances
\* on every call
StrToIpAddr_BumpsAlways(d, h, checks) ==
    LET host == d.next
        bump == NextPlusOne(d.next, checks)
    IN  IF bump = <<>> THEN [dns |-> d, val |-> <<>>]
        ELSE IF NamesGet(d, h) # <<>>
             THEN [dns |-> [d EXCEPT !.next = bump[1]], val |-> NamesGet(d, h)]
             ELSE [dns |-> [d EXCEPT !.next = bump[1],
                                     !.names = Append(@, [name |-> h, ip |-> IpOf(host)])],
                   val |-> <<IpOf(host)>>]

\* <&str as ToIpAddr>::to_ip_addr: entry(name).or_insert_with(allocate)
StrToIpAddr(d, h, checks) ==
    IF NamesGet(d, h) # <<>> THEN [dns |-> d, val |-> NamesGet(d, h)]
    ELSE LET host == d.next
             bump == NextPlusOne(d.next, checks)
         IN  IF bump = <<>> THEN [dns |-> d, val |-> <<>>]
             ELSE [dns |-> [d EXCEPT !.next = bump[1],
                                     !.names = Append(@, [name |-> h, ip |-> IpOf(host)])],
                   val |-> <<IpOf(host)>>]

\* IpToIpAddr that takes a counter value for the literal
IpToIpAddr_Allocates(d, ip) ==
    [dns |-> [d EXCEPT !.next = (@ + 1) % U16], val |-> <<ip>>]

\* <IpAddr as ToIpAddr>::to_ip_addr
IpToIpAddr(d, ip) == [dns |-> d, val |-> <<ip>>]

\* <T: ToIpAddr as ToIpAddrs>::to_ip_addrs: vec![self.to_ip_addr(dns)]
ToIpAddrs(r) ==
    [dns |-> r.dns, val |-> IF r.val = <<>> THEN <<>> ELSE <<r.val>>]

\* PairToSocketAddr with unwrap_or(unspecified) in place of the panic
PairToSocketAddr_Defaults(d, h, port) ==
    IF ParseIpAddr(h) # <<>> THEN <<SockAddr(ParseIpAddr(h)[1], port)>>
    ELSE IF NamesGet(d, h) # <<>> THEN <<SockAddr(NamesGet(d, h)[1], port)>>
    ELSE <<SockAddr(V4(0, 0, 0, 0), port)>>

\* PairToSocketAddr that takes the first entry of the registry (get_index(0))
\* in place of the entry of the host
PairToSocketAddr_FirstEntry(d, h, port) ==
    IF ParseIpAddr(h) # <<>> THEN <<SockAddr(ParseIpAddr(h)[1], port)>>
    ELSE IF NamesGet(d, h) # <<>> THEN <<SockAddr(NamesAt(d, 1).ip, port)>>
    ELSE <<>>

\* <(&str, u16) as ToSocketAddrs>::to_socket_addr
PairToSocketAddr(d, h, port) ==
    IF ParseIpAddr(h) # <<>> THEN <<SockAddr(ParseIpAddr(h)[1], port)>>
    ELSE IF NamesGet(d, h) # <<>> THEN <<SockAddr(NamesGet(d, h)[1], port)>>
    ELSE <<>>

\* StrToSocketAddr with split_once in place of rsplit_once
StrToSocketAddr_SplitsFirst(d, t) ==
    IF ParseSocketAddr(t) # <<>> THEN ParseSocketAddr(t)
    ELSE LET sp == SplitOnce(t, ":")
         IN  IF sp = <<>> THEN <<>>
             ELSE LET port == ParseU16(sp[1].tail)
                  IN  IF port = <<>> THEN <<>>
                      ELSE PairToSocketAddr(d, sp[1].head, port[1])

\* <str as ToSocketAddrs>::to_socket_addr
StrToSocketAddr(d, t) ==
    IF ParseSocketAddr(t) # <<>> THEN ParseSocketAddr(t)
    ELSE LET sp == RSplitOnce(t, ":")
         IN  IF sp = <<>> THEN <<>>
             ELSE LET port == ParseU16(sp[1].port)
                  IN  IF port = <<>> THEN <<>>
                      ELSE PairToSocketAddr(d, sp[1].host, port[1])

\* <SocketAddr as ToSocketAddrs>::to_socket_addr
SocketAddrToSocketAddr(d, sa) == <<sa>>

\* <(IpAddr, u16) as ToSocketAddrs>::to_socket_addr
IpPortToSocketAddr(d, ip, port) == <<SockAddr(ip, port)>>

RECURSIVE LookupEach(_, _, _, _)
\* hosts.into_iter().filter_map(|h| is_match(&h).then(|| h.to_ip_addr(dns)))
\* over the matching keys, in order; acc collects the addresses
LookupEach(d, hosts, checks, acc) ==
    IF hosts = <<>> THEN [dns |-> d, val |-> <<acc>>]
    ELSE LET r == StrToIpAddr(d, Head(hosts), checks)
         IN  IF r.val = <<>> THEN [dns |-> r.dns, val |-> <<>>]
             ELSE LookupEach(r.dns, Tail(hosts), checks, Append(acc, r.val[1]))

\* <Regex as ToIpAddrs>::to_ip_addrs; the pattern is given by the set of
\* strings it matches
RegexToIpAddrs(d, matches, checks) ==
    LET idx  == {i \in {NumeralOf(h) : h \in matches} : 1 <= i /\ i <= d.filled}
                   \cup {d.filled + i : i \in {j \in 1..Len(d.names) :
                                                  d.names[j].name \in matches}}
        keys == [k \in 1..Cardinality(idx) |->
                    NamesAt(d, CHOOSE i \in idx :
                                   Cardinality({j \in idx : j < i}) = k - 1).name]
    IN  LookupEach(d, keys, checks, <<>>)

\* ------------------------------------------------------------------------
\* Inputs of the resolution calls
\* ------------------------------------------------------------------------

foo == <<"f", "o", "o">>

bar == <<"b", "a", "r">>

one == <<"1">>

v6one == <<":", ":", "1">>

v6bracket == <<"[", ":", ":", "1", "]">>

lo4 == <<"1", "2", "7", ".", "0", ".", "0", ".", "1">>

\* format!("{host}:{port}")
Join(h, p) == h \o <<":">> \o p

\* hostnames given to lookup: two names, a numeral, and a string that is
\* also an IPv6 literal
LookupNames == {foo, bar, one, v6one}

\* host strings of the (host, port) and "host:port" forms
PairHosts == {foo, bar, v6one, lo4, v6bracket}

Ports == {80, 4000}

\* port texts: decimal, signed, out of range, not a number
PortTexts == {Dec(80), <<"+">> \o Dec(80), Dec(U16), <<"x">>}

TextHosts == {foo, lo4, v6one, v6bracket}

\* socket address texts: every host with every port text, and two hosts
\* alone (no port)
Texts == {Join(h, p) : h \in TextHosts, p \in PortTexts} \cup {foo, lo4}

IpLiterals == {V4(127, 0, 0, 1), V6(1)}

\* addresses given to reverse: the first allocated one, the two ends of the counter
\* range, and a literal never allocated
ReverseIps == {IpOf(1), IpOf(0), IpOf(U16 - 1), V4(127, 0, 0, 1)}

\* patterns, each given by the strings it matches
Patterns == {{foo, bar}, {one, v6one}}

\* ------------------------------------------------------------------------
\* Registry behaviours
\* ------------------------------------------------------------------------

Called(op, arg, val, known) ==
    [op |-> op, arg |-> arg, val |-> val, pre |-> dns, known |-> known]

\* whether hostname h is one of the numerals the registry of Init holds
Preloaded(h) == 1 <= NumeralOf(h) /\ NumeralOf(h) <= dns.filled

\* whether lookup(h) has returned before
Answered(h) == Preloaded(h) \/ \E r \in first : r.name = h

\* the histories after lookup(h) returned val (val = <<>>: it panicked)
Record(h, val) ==
    /\ first' = IF val = <<>> \/ Answered(h) THEN first
                ELSE first \cup {[name |-> h, ip |-> val[1]]}
    /\ order' = IF val = <<>> \/ Answered(h) THEN order ELSE Append(order, h)

InitDns ==
    /\ dns \in {DnsNew, DnsFilled(U16 - 2)}
    /\ overflowChecks \in BOOLEAN
    /\ ret = [op |-> "new", arg |-> <<>>, val |-> <<>>, pre |-> dns, known |-> FALSE]
    /\ order = <<>>
    /\ first = {}
    /\ running = FALSE
    /\ current = <<>>
    /\ binds = <<>>
    /\ sockets = <<>>
    /\ sent = <<>>
    /\ io = [op |-> "none"]
    /\ InitNet

\* Dns::lookup(&str)
Lookup(h) ==
    /\ NamesGet(dns, h) # <<>> \/ Len(dns.names) < MaxNames
    /\ LET r == StrToIpAddr(dns, h, overflowChecks)
       IN  /\ dns' = r.dns
           /\ ret' = Called("lookup", h, r.val, Answered(h))
           /\ Record(h, r.val)
    /\ UNCHANGED <<overflowChecks, udpVars>>

\* Dns::lookup(IpAddr)
LookupIp(ip) ==
    /\ LET r == IpToIpAddr(dns, ip)
       IN  /\ dns' = r.dns
           /\ ret' = Called("lookup_ip", ip, r.val, FALSE)
    /\ UNCHANGED <<overflowChecks, order, first, udpVars>>

\* Dns::lookup_many(&str)
LookupMany(h) ==
    /\ NamesGet(dns, h) # <<>> \/ Len(dns.names) < MaxNames
    /\ LET r == ToIpAddrs(StrToIpAddr(dns, h, overflowChecks))
       IN  /\ dns' = r.dns
           /\ ret' = Called("lookup_many", h, r.val, Answered(h))
           /\ Record(h, IF r.val = <<>> THEN <<>> ELSE r.val[1])
    /\ UNCHANGED <<overflowChecks, udpVars>>

\* Dns::lookup_many(IpAddr)
LookupManyIp(ip) ==
    /\ LET r == ToIpAddrs(IpToIpAddr(dns, ip))
       IN  /\ dns' = r.dns
           /\ ret' = Called("lookup_many_ip", ip, r.val, FALSE)
    /\ UNCHANGED <<overflowChecks, order, first, udpVars>>

\* Dns::lookup_many(Regex)
LookupManyRegex(matches) ==
    /\ LET r == RegexToIpAddrs(dns, matches, overflowChecks)
       IN  /\ dns' = r.dns
           /\ ret' = Called("lookup_many_regex", matches, r.val, FALSE)
    /\ UNCHANGED <<overflowChecks, order, first, udpVars>>

\* Dns::reverse(IpAddr)
Reverse(ip) ==
    /\ ret' = Called("reverse", ip, DnsReverse(dns, ip), FALSE)
    /\ UNCHANGED <<dns, overflowChecks, order, first, udpVars>>

\* (&str, u16).to_socket_addr(&dns)
ResolvePair(h, port) ==
    /\ ret' = Called("pair", [host |-> h, port |-> port],
                     PairToSocketAddr(dns, h, port), FALSE)
    /\ UNCHANGED <<dns, overflowChecks, order, first, udpVars>>

\* str.to_socket_addr(&dns)
ResolveText(t) ==
    /\ ret' = Called("text", t, StrToSocketAddr(dns, t), FALSE)
    /\ UNCHANGED <<dns, overflowChecks, order, first, udpVars>>

\* SocketAddr.to_socket_addr(&dns)
ResolveSocketAddr(sa) ==
    /\ ret' = Called("socket_addr", sa, SocketAddrToSocketAddr(dns, sa), FALSE)
    /\ UNCHANGED <<dns, overflowChecks, order, first, udpVars>>

\* (IpAddr, u16).to_socket_addr(&dns)
ResolveIpPort(ip, port) ==
    /\ ret' = Called("ip_port", [ip |-> ip, port |-> port],
                     IpPortToSocketAddr(dns, ip, port), FALSE)
    /\ UNCHANGED <<dns, overflowChecks, order, first, udpVars>>

NextDns ==
    \/ \E h \in LookupNames : Lookup(h)
    \/ \E ip \in IpLiterals : LookupIp(ip)
    \/ \E h \in LookupNames : LookupMany(h)
    \/ \E ip \in IpLiterals : LookupManyIp(ip)
    \/ \E m \in Patterns : LookupManyRegex(m)
    \/ \E ip \in ReverseIps : Reverse(ip)
    \/ \E h \in PairHosts, p \in Ports : ResolvePair(h, p)
    \/ \E t \in Texts : ResolveText(t)
    \/ \E ip \in IpLiterals, p \in Ports : ResolveSocketAddr(SockAddr(ip, p))
    \/ \E ip \in IpLiterals, p \in Ports : ResolveIpPort(ip, p)

SpecDns == InitDns /\ [][NextDns]_vars

\* ------------------------------------------------------------------------
\* Simulation context (World) and UDP sockets
\* ------------------------------------------------------------------------

\* the values a call site passes as `impl ToSocketAddrs`
Text(t) == [kind |-> "str", text |-> t]

Pair(h, p) == [kind |-> "pair", host |-> h, port |-> p]

Literal(sa) == [kind |-> "socket_addr", addr |-> sa]

IpPort(ip, p) == [kind |-> "ip_port", ip |-> ip, port |-> p]

\* ToSocketAddrs::to_socket_addr, by the type of the value
ToSocketAddr(d, a) ==
    CASE a.kind = "str" -> StrToSocketAddr(d, a.text)
      [] a.kind = "pair" -> PairToSocketAddr(d, a.host, a.port)
      [] a.kind = "socket_addr" -> SocketAddrToSocketAddr(d, a.addr)
      [] a.kind = "ip_port" -> IpPortToSocketAddr(d, a.ip, a.port)

\* the hosts of the simulation, in the order they were added
HostNames == <<foo, bar>>

RECURSIVE DnsWithHosts(_, _)
\* the registry after each host name was looked up when the host was added
DnsWithHosts(d, hosts) ==
    IF hosts = <<>> THEN d
    ELSE DnsWithHosts(StrToIpAddr(d, Head(hosts), TRUE).dns, Tail(hosts))

HostAddrs == {NamesGet(DnsWithHosts(DnsNew, HostNames), HostNames[i])[1] :
                 i \in 1..Len(HostNames)}

\* host.udp.bind(addr): the unspecified and loopback addresses can be bound,
\* once each; `bound` is the set of addresses bound on the host
HostUdpBind(bound, addr) ==
    IF ~(IsUnspecified(addr.ip) \/ IsLoopback(addr.ip))
    THEN [ok |-> FALSE, err |-> "AddrNotAvailable", bound |-> bound]
    ELSE IF addr \in bound
         THEN [ok |-> FALSE, err |-> "AddrInUse", bound |-> bound]
         ELSE [ok |-> TRUE, err |-> "", bound |-> bound \cup {addr}]

\* world.send_message(src, dst, message): the envelope is handed over
WorldSendMessage(log, src, dst, message) ==
    Append(log, [src |-> src, dst |-> dst, message |-> message])

\* a datagram that carries no byte of the buffer
UdpDatagram_Empty(buf) == [protocol |-> "Udp", payload |-> <<>>]

\* Protocol::Udp(Datagram(Bytes::copy_from_slice(buf)))
UdpDatagram(buf) == [protocol |-> "Udp", payload |-> [i \in 1..Len(buf) |-> buf[i]]]

\* UdpSocket::new
UdpSocketNew(local_addr, host) == [local_addr |-> local_addr, host |-> host]

\* Mutex::new(rx) of UdpSocket::new: an empty channel, the mutex unlocked
RxNew == [queue |-> <<>>, holder |-> 0, waiters |-> <<>>]

\* the histories of a socket that was just bound
HistNew == [enq |-> <<>>, deq |-> <<>>, cancelled |-> FALSE]

Before ==
    [binds |-> binds, sockets |-> sockets, sent |-> sent, current |-> current,
     running |-> running, rx |-> rx, tasks |-> tasks, dropped |-> dropped]

Io(op, sock, arg, buf, val) ==
    [op |-> op, sock |-> sock, arg |-> arg, buf |-> buf, val |-> val, pre |-> Before]

\* a panic inside World::current unwinds through the simulation
Panicked(op, sock, arg, buf) ==
    /\ running' = FALSE
    /\ io' = Io(op, sock, arg, buf, <<>>)
    /\ UNCHANGED <<current, binds, sockets, sent, rx, hist>>

\* UdpSocket::bind without host.udp.bind: the socket is made, the address is
\* neither checked nor registered
UdpSocketBind_Unregistered(a) ==
    /\ running
    /\ LET r == ToSocketAddr(dns, a)
       IN  IF r = <<>> THEN Panicked("bind", 0, a, <<>>)
           ELSE /\ Len(sockets) - prebound < MaxSockets
                /\ sockets' = Append(sockets, UdpSocketNew(r[1], current))
                /\ rx' = Append(rx, RxNew)
                /\ hist' = Append(hist, HistNew)
                /\ io' = Io("bind", Len(sockets'), a, <<>>,
                            <<[ok |-> TRUE, err |-> "", addr |-> r[1]]>>)
                /\ UNCHANGED <<running, current, binds, sent>>
    /\ UNCHANGED <<tasks, delivered, dropped, unbinds, prebound, pairs>>
    /\ UNCHANGED dnsVars

\* UdpSocket::bind(addr)
UdpSocketBind(a) ==
    /\ running
    /\ LET r == ToSocketAddr(dns, a)
       IN  IF r = <<>> THEN Panicked("bind", 0, a, <<>>)
           ELSE LET b == HostUdpBind(binds[current], r[1])
                IN  /\ b.ok => Len(sockets) - prebound < MaxSockets
                    /\ binds' = [binds EXCEPT ![current] = b.bound]
                    /\ sockets' = IF b.ok
                                  THEN Append(sockets, UdpSocketNew(r[1], current))
                                  ELSE sockets
                    /\ rx' = IF b.ok THEN Append(rx, RxNew) ELSE rx
                    /\ hist' = IF b.ok THEN Append(hist, HistNew) ELSE hist
                    /\ io' = Io("bind", IF b.ok THEN Len(sockets') ELSE 0, a, <<>>,
                                <<[ok |-> b.ok, err |-> b.err, addr |-> r[1]]>>)
                    /\ UNCHANGED <<running, current, sent>>
    /\ UNCHANGED <<tasks, delivered, dropped, unbinds, prebound, pairs>>
    /\ UNCHANGED dnsVars

\* SendSource that puts the host's address in place of every bound address
SendSource_AlwaysHost(local_addr, host_addr) ==
    SockAddr(host_addr, local_addr.port)

\* the source of an envelope: the host's address when the socket is bound to
\* an unspecified IP, else the bound address
SendSource(local_addr, host_addr) ==
    IF IsUnspecified(local_addr.ip) THEN SockAddr(host_addr, local_addr.port)
    ELSE local_addr

\* UdpSocket::send_to that sends and reports only the first byte of a longer
\* buffer
UdpSocketSendTo_Partial(i, buf, target) ==
    /\ running
    /\ i \in 1..Len(sockets)
    /\ i \notin dropped
    /\ Len(sent) < MaxSent
    /\ LET dst == ToSocketAddr(dns, target)
           cut == IF Len(buf) > 1 THEN SubSeq(buf, 1, 1) ELSE buf
       IN  IF dst = <<>> THEN Panicked("send_to", i, target, buf)
           ELSE /\ sent' = WorldSendMessage(sent,
                               SendSource(sockets[i].local_addr, current),
                               dst[1], UdpDatagram(cut))
                /\ io' = Io("send_to", i, target, buf, <<[ok |-> TRUE, n |-> Len(cut)]>>)
                /\ UNCHANGED <<running, current, binds, sockets, rx, hist>>
    /\ UNCHANGED <<tasks, delivered, dropped, unbinds, prebound, pairs>>
    /\ UNCHANGED dnsVars

\* UdpSocket::send_to(buf, target) on socket i, which is alive; the host that
\* is active at the call is world.current_host
UdpSocketSendTo(i, buf, target) ==
    /\ running
    /\ i \in 1..Len(sockets)
    /\ i \notin dropped
    /\ Len(sent) < MaxSent
    /\ LET dst == ToSocketAddr(dns, target)
       IN  IF dst = <<>> THEN Panicked("send_to", i, target, buf)
           ELSE /\ sent' = WorldSendMessage(sent,
                               SendSource(sockets[i].local_addr, current),
                               dst[1], UdpDatagram(buf))
                /\ io' = Io("send_to", i, target, buf, <<[ok |-> TRUE, n |-> Len(buf)]>>)
                /\ UNCHANGED <<running, current, binds, sockets, rx, hist>>
    /\ UNCHANGED <<tasks, delivered, dropped, unbinds, prebound, pairs>>
    /\ UNCHANGED dnsVars

\* the scheduler makes another host the active one
SwitchHost(h) ==
    /\ running
    /\ h # current
    /\ current' = h
    /\ io' = Io("switch", 0, h, <<>>, <<>>)
    /\ UNCHANGED <<running, binds, sockets, sent, netVars>>
    /\ UNCHANGED dnsVars

\* ------------------------------------------------------------------------
\* Inputs of the socket calls
\* ------------------------------------------------------------------------

baz == <<"b", "a", "z">>

any4 == <<"0", ".", "0", ".", "0", ".", "0">>

\* addresses given to bind: unspecified (as text and as a pair), loopback, a
\* host's own routable address, and a hostname the registry does not hold
BindAddrs ==
    {Text(Join(any4, Dec(80))), IpPort(V6(0), 4000), Literal(SockAddr(V4(127, 0, 0, 1), 80)),
     Pair(foo, 4000), Text(Join(baz, Dec(80)))}

\* destinations given to send_to: a host by name, a literal, an unknown name
Targets ==
    {Pair(bar, 80), Literal(SockAddr(V4(127, 0, 0, 1), 80)), Text(Join(baz, Dec(80)))}

\* b"ping"
ping == <<112, 105, 110, 103>>

\* buffers given to send_to: empty, four bytes
Payloads == {<<>>, ping}

\* ------------------------------------------------------------------------
\* Socket behaviours
\* ------------------------------------------------------------------------

InitUdp ==
    /\ dns = DnsWithHosts(DnsNew, HostNames)
    /\ overflowChecks \in BOOLEAN
    /\ ret = [op |-> "new", arg |-> <<>>, val |-> <<>>, pre |-> dns, known |-> FALSE]
    /\ order = HostNames
    /\ first = {[name |-> HostNames[i], ip |-> NamesGet(dns, HostNames[i])[1]] :
                   i \in 1..Len(HostNames)}
    /\ running = TRUE
    /\ current \in HostAddrs
    /\ binds = [h \in HostAddrs |-> {}]
    /\ sockets = <<>>
    /\ sent = <<>>
    /\ io = [op |-> "none"]
    /\ InitNet

NextUdp ==
    \/ \E a \in BindAddrs : UdpSocketBind(a)
    \/ \E i \in 1..MaxSockets, buf \in Payloads, t \in Targets : UdpSocketSendTo(i, buf, t)
    \/ \E h \in HostAddrs : SwitchHost(h)

SpecUdp == InitUdp /\ [][NextUdp]_vars

\* ------------------------------------------------------------------------
\* Socket teardown (impl Drop for UdpSocket)
\* ------------------------------------------------------------------------

\* host.udp.unbind(addr): the address is no longer bound on the host
HostUdpUnbind(bound, addr) == bound \ {addr}

\* the simulation ends: no World is set from then on
EndSimulation ==
    /\ running
    /\ running' = FALSE
    /\ io' = Io("end", 0, <<>>, <<>>, <<>>)
    /\ UNCHANGED <<current, binds, sockets, sent, netVars>>
    /\ UNCHANGED dnsVars

\* <UdpSocket as Drop>::drop on socket i, which no recv_from call borrows:
\* World::current_if_set(|world| world.current_host_mut().udp.unbind(local_addr))
UdpSocketDrop(i) ==
    /\ i \in 1..Len(sockets)
    /\ i \notin dropped
    /\ \A t \in DOMAIN tasks : tasks[t].sock # i
    /\ dropped' = dropped \cup {i}
    /\ IF running
       THEN /\ binds' = [binds EXCEPT ![current] =
                            HostUdpUnbind(@, sockets[i].local_addr)]
            /\ unbinds' = Append(unbinds, [sock |-> i, host |-> current,
                                           addr |-> sockets[i].local_addr])
       ELSE UNCHANGED <<binds, unbinds>>
    /\ io' = Io("drop", i, <<>>, <<>>, <<>>)
    /\ UNCHANGED <<running, current, sockets, sent>>
    /\ UNCHANGED <<rx, tasks, hist, delivered, prebound, pairs>>
    /\ UNCHANGED dnsVars

\* a world in which the sockets `socks` were bound, each on its host, before
\* the behaviour begins
InitWorld(socks) ==
    /\ dns = DnsWithHosts(DnsNew, HostNames)
    /\ overflowChecks \in BOOLEAN
    /\ ret = [op |-> "new", arg |-> <<>>, val |-> <<>>, pre |-> dns, known |-> FALSE]
    /\ order = HostNames
    /\ first = {[name |-> HostNames[i], ip |-> NamesGet(dns, HostNames[i])[1]] :
                   i \in 1..Len(HostNames)}
    /\ running = TRUE
    /\ current \in HostAddrs
    /\ binds = [h \in HostAddrs |->
                   {socks[i].local_addr : i \in {j \in 1..Len(socks) : socks[j].host = h}}]
    /\ sockets = socks
    /\ sent = <<>>
    /\ io = [op |-> "none"]
    /\ rx = [i \in 1..Len(socks) |-> RxNew]
    /\ tasks = [t \in 1..MaxTasks |-> IdleTask]
    /\ hist = [i \in 1..Len(socks) |-> HistNew]
    /\ delivered = {}
    /\ dropped = {}
    /\ unbinds = <<>>
    /\ prebound = Len(socks)
    /\ pairs = {}

\* one socket was bound, on either host, to 0.0.0.0:80 or to 127.0.0.1:80
InitDrop ==
    \E h \in HostAddrs, ip \in {V4(0, 0, 0, 0), V4(127, 0, 0, 1)} :
        InitWorld(<<UdpSocketNew(SockAddr(ip, 80), h)>>)

\* addresses given to bind after a drop: those of the sockets bound before
Rebinds == {Text(Join(any4, Dec(80))), Literal(SockAddr(V4(127, 0, 0, 1), 80))}

NextDrop ==
    \/ \E a \in Rebinds : UdpSocketBind(a)
    \/ \E i \in 1..(MaxSockets + 1) : UdpSocketDrop(i)
    \/ \E h \in HostAddrs : SwitchHost(h)
    \/ EndSimulation

SpecDrop == InitDrop /\ [][NextDrop]_vars

\* ------------------------------------------------------------------------
\* Receiving (UdpSocket::recv_from)
\*
\* rx[i] = [queue, holder, waiters] is the Mutex<mpsc::Receiver> of socket i:
\* the envelopes [payload, origin] in the channel, the task that holds the
\* mutex guard (0: none) and the tasks that wait for it, in order of arrival.
\* A task runs until its call suspends: one action is one poll of the call.
\* ------------------------------------------------------------------------

\* tx.send((datagram, origin)) by the simulation context
ChannelSend(queue, env) == Append(queue, env)

\* Receiver::recv that yields the envelope sent last
ChannelRecv_Newest(queue) ==
    [env |-> queue[Len(queue)], queue |-> SubSeq(queue, 1, Len(queue) - 1)]

\* Receiver::recv on a channel that holds an envelope: the oldest one
ChannelRecv(queue) == [env |-> Head(queue), queue |-> Tail(queue)]

\* Mutex::lock that hands a guard to every caller
MutexLock_Shared(m, t) == [m EXCEPT !.holder = t]

\* Mutex::lock by task t: the guard if the mutex is free, else a place at
\* the end of the waiters
MutexLock(m, t) ==
    IF m.holder = 0 THEN [m EXCEPT !.holder = t]
    ELSE [m EXCEPT !.waiters = Append(@, t)]

\* the guard is dropped: the mutex goes to the first waiter, if any
MutexUnlock(m) ==
    IF m.waiters = <<>> THEN [m EXCEPT !.holder = 0]
    ELSE [m EXCEPT !.holder = Head(m.waiters), !.waiters = Tail(m.waiters)]

\* a lock() future is dropped: task t waits no longer
MutexForget(m, t) ==
    [m EXCEPT !.waiters = SelectSeq(m.waiters, LAMBDA w : w # t)]

\* the tasks after the mutex of socket i became m: its new holder waits on
\* the channel
Granted(ts, m, i) ==
    [t \in DOMAIN ts |->
        IF ts[t].pc = "lock" /\ ts[t].sock = i /\ m.holder = t
        THEN [ts[t] EXCEPT !.pc = "recv"]
        ELSE ts[t]]

\* the copy that also clears the rest of the buffer
RecvCopy_Clears(buf, bytes) ==
    LET limit == Min({Len(buf), Len(bytes)})
    IN  [n |-> limit,
         buf |-> [k \in 1..Len(buf) |-> IF k <= limit THEN bytes[k] ELSE 0]]

\* limit = min(buf.len(), bytes.len()); buf.put(bytes.take(limit))
RecvCopy(buf, bytes) ==
    LET limit == Min({Len(buf), Len(bytes)})
    IN  [n |-> limit,
         buf |-> [k \in 1..Len(buf) |-> IF k <= limit THEN bytes[k] ELSE buf[k]]]

\* recv_from of task t on socket i returns: t holds the guard of m, whose
\* channel holds an envelope
RecvFromReturns(t, i, buf, m) ==
    LET r == ChannelRecv(m.queue)
        c == RecvCopy(buf, r.env.payload)
        u == MutexUnlock([m EXCEPT !.queue = r.queue])
    IN  /\ rx' = [rx EXCEPT ![i] = u]
        /\ tasks' = Granted([tasks EXCEPT ![t] = IdleTask], u, i)
        /\ hist' = [hist EXCEPT ![i].deq = Append(@, [env |-> r.env, task |-> t])]
        /\ io' = Io("recv_from", i, [task |-> t, buf |-> buf], c.buf,
                    <<[n |-> c.n, origin |-> r.env.origin]>>)

\* recv_from whose cancellation takes the oldest envelope with it
RecvFromCancel_Dequeues(t) ==
    /\ tasks[t].pc # "idle"
    /\ LET i == tasks[t].sock
           m == IF tasks[t].pc = "recv"
                THEN MutexUnlock([rx[i] EXCEPT !.queue =
                                     IF @ = <<>> THEN @ ELSE Tail(@)])
                ELSE MutexForget(rx[i], t)
       IN  /\ rx' = [rx EXCEPT ![i] = m]
           /\ tasks' = Granted([tasks EXCEPT ![t] = IdleTask], m, i)
           /\ hist' = [hist EXCEPT ![i].cancelled = TRUE]
           /\ io' = Io("cancel", i, [task |-> t, buf |-> tasks[t].buf], <<>>, <<>>)
    /\ UNCHANGED <<running, current, binds, sockets, sent>>
    /\ UNCHANGED <<delivered, dropped, unbinds, prebound, pairs>>
    /\ UNCHANGED dnsVars

\* the recv_from future of task t is dropped while it is suspended: a guard it
\* holds is released, a place among the waiters is given up
RecvFromCancel(t) ==
    /\ tasks[t].pc # "idle"
    /\ LET i == tasks[t].sock
           m == IF tasks[t].pc = "recv" THEN MutexUnlock(rx[i])
                ELSE MutexForget(rx[i], t)
       IN  /\ rx' = [rx EXCEPT ![i] = m]
           /\ tasks' = Granted([tasks EXCEPT ![t] = IdleTask], m, i)
           /\ hist' = [hist EXCEPT ![i].cancelled = TRUE]
           /\ io' = Io("cancel", i, [task |-> t, buf |-> tasks[t].buf], <<>>, <<>>)
    /\ UNCHANGED <<running, current, binds, sockets, sent>>
    /\ UNCHANGED <<delivered, dropped, unbinds, prebound, pairs>>
    /\ UNCHANGED dnsVars

\* task t calls recv_from(buf) on socket i, which is alive: it returns at
\* once if the mutex is free and the channel holds an envelope, else it
\* suspends, waiting for the guard or, holding it, for an envelope
RecvFromCall(t, i, buf) ==
    /\ tasks[t].pc = "idle"
    /\ i \in 1..Len(sockets)
    /\ i \notin dropped
    /\ LET m == MutexLock(rx[i], t)
       IN  IF m.holder = t /\ m.queue # <<>>
           THEN RecvFromReturns(t, i, buf, m)
           ELSE /\ rx' = [rx EXCEPT ![i] = m]
                /\ tasks' = [tasks EXCEPT ![t] =
                               [pc |-> IF m.holder = t THEN "recv" ELSE "lock",
                                sock |-> i, buf |-> buf]]
                /\ io' = Io("recv_wait", i, [task |-> t, buf |-> buf], buf, <<>>)
                /\ UNCHANGED hist
    /\ UNCHANGED <<running, current, binds, sockets, sent>>
    /\ UNCHANGED <<delivered, dropped, unbinds, prebound, pairs>>
    /\ UNCHANGED dnsVars

\* task t, which holds the guard, is polled again once the channel holds an
\* envelope
RecvFromResume(t) ==
    /\ tasks[t].pc = "recv"
    /\ rx[tasks[t].sock].queue # <<>>
    /\ RecvFromReturns(t, tasks[t].sock, tasks[t].buf, rx[tasks[t].sock])
    /\ UNCHANGED <<running, current, binds, sockets, sent>>
    /\ UNCHANGED <<delivered, dropped, unbinds, prebound, pairs>>
    /\ UNCHANGED dnsVars

\* how many envelopes were enqueued on the sockets so far
Enqueued == LET RECURSIVE Sum(_)
                Sum(n) == IF n = 0 THEN 0 ELSE Len(hist[n].enq) + Sum(n - 1)
            IN  Sum(Len(hist))

\* the channel and the history of socket i after the context enqueued env
Enqueue(i, env) ==
    /\ Enqueued < MaxQueued
    /\ rx' = [rx EXCEPT ![i].queue = ChannelSend(@, env)]
    /\ hist' = [hist EXCEPT ![i].enq = Append(@, env)]

\* the simulation context enqueues an envelope on the channel of socket i
ContextEnqueue(i, env) ==
    /\ running
    /\ i \in 1..Len(sockets)
    /\ i \notin dropped
    /\ Enqueue(i, env)
    /\ io' = Io("enqueue", i, env, <<>>, <<>>)
    /\ UNCHANGED <<running, current, binds, sockets, sent>>
    /\ UNCHANGED <<tasks, delivered, dropped, unbinds, prebound, pairs>>
    /\ UNCHANGED dnsVars

\* the simulation context routes the sent envelope k to socket i, which is
\* bound to the unspecified address and the port of the destination on the
\* host of the destination
ContextDeliver(k, i) ==
    /\ running
    /\ k \in 1..Len(sent)
    /\ k \notin delivered
    /\ i \in 1..Len(sockets)
    /\ i \notin dropped
    /\ sockets[i].local_addr \in binds[sockets[i].host]
    /\ IsUnspecified(sockets[i].local_addr.ip)
    /\ sent[k].dst = SockAddr(sockets[i].host, sockets[i].local_addr.port)
    /\ Enqueue(i, [payload |-> sent[k].message.payload, origin |-> sent[k].src])
    /\ delivered' = delivered \cup {k}
    /\ io' = Io("deliver", i, k, <<>>, <<>>)
    /\ UNCHANGED <<running, current, binds, sockets, sent>>
    /\ UNCHANGED <<tasks, dropped, unbinds, prebound, pairs>>
    /\ UNCHANGED dnsVars

\* the buffers given to recv_from: shorter and longer than b"ping"; their
\* bytes are none of the payloads'
RecvBufs == {<<7, 7>>, <<7, 7, 7, 7, 7>>}

\* the envelopes the context enqueues: b"ping" from foo's port 4000 and one
\* byte from bar's port 80
Envelopes ==
    {[payload |-> ping, origin |-> SockAddr(V4(192, 168, 0, 1), 4000)],
     [payload |-> <<112>>, origin |-> SockAddr(V4(192, 168, 0, 2), 80)]}

\* a socket was bound on host bar to the literal address 0.0.0.0:80; bar is
\* the active host
InitRecv ==
    /\ InitWorld(<<UdpSocketNew(SockAddr(V4(0, 0, 0, 0), 80), V4(192, 168, 0, 2))>>)
    /\ current = V4(192, 168, 0, 2)

NextRecv ==
    \/ \E i \in 1..MaxSockets, env \in Envelopes : ContextEnqueue(i, env)
    \/ \E t \in 1..MaxTasks, i \in 1..MaxSockets, buf \in RecvBufs : RecvFromCall(t, i, buf)
    \/ \E t \in 1..MaxTasks : RecvFromResume(t)
    \/ \E t \in 1..MaxTasks : RecvFromCancel(t)

SpecRecv == InitRecv /\ [][NextRecv]_vars

\* ------------------------------------------------------------------------
\* A datagram from one host to another
\* ------------------------------------------------------------------------

\* addresses given to bind by the sender: host foo by name, and unspecified
SenderBinds == {Text(Join(foo, Dec(4000))), Text(Join(any4, Dec(4000)))}

\* the receiver's address as a literal: port 80 of host bar
ReceiverAddr == Literal(SockAddr(V4(192, 168, 0, 2), 80))

\* socket 1 was bound on host bar to the literal address 0.0.0.0:80
InitPing ==
    InitWorld(<<UdpSocketNew(SockAddr(V4(0, 0, 0, 0), 80), V4(192, 168, 0, 2))>>)

\* the host of socket i, being active, sends b"ping" from it to the receiver
SendPing(i) ==
    /\ i \in 1..Len(sockets)
    /\ sockets[i].host = current
    /\ UdpSocketSendTo(i, ping, ReceiverAddr)

\* a host binds a sender and sends b"ping" from it to the receiver, the
\* context routes the envelope, task 1 receives on socket 1 into four bytes
NextPing ==
    \/ \E a \in SenderBinds : UdpSocketBind(a)
    \/ \E i \in 2..(MaxSockets + 1) : SendPing(i)
    \/ \E k \in 1..MaxSent, i \in 1..(MaxSockets + 1) : ContextDeliver(k, i)
    \/ RecvFromCall(1, 1, <<7, 7, 7, 7>>)
    \/ RecvFromResume(1)
    \/ \E h \in HostAddrs : SwitchHost(h)

SpecPing == InitPing /\ [][NextPing]_vars

\* ------------------------------------------------------------------------
\* Socket pairs (net/mod.rs)
\* ------------------------------------------------------------------------

\* SocketPair::new without the assert_ne!
SocketPairNew_Unchecked(local, remote) ==
    <<[local |-> local, remote |-> remote]>>

\* SocketPair::new(local, remote); <<>> when assert_ne! panics
SocketPairNew(local, remote) ==
    IF local = remote THEN <<>>
    ELSE <<[local |-> local, remote |-> remote]>>

\* a call of SocketPair::new; the pair, if one is made, exists from then on
MakePair(local, remote) ==
    /\ Cardinality(pairs) < MaxPairs
    /\ LET p == SocketPairNew(local, remote)
       IN  /\ pairs' = pairs \cup {p[i] : i \in 1..Len(p)}
           /\ io' = Io("pair", 0, [local |-> local, remote |-> remote], <<>>, p)
    /\ UNCHANGED <<running, current, binds, sockets, sent>>
    /\ UNCHANGED <<rx, tasks, hist, delivered, dropped, unbinds, prebound>>
    /\ UNCHANGED dnsVars

\* the addresses given to SocketPair::new
PairAddrs ==
    {SockAddr(ip, port) : ip \in {V4(192, 168, 0, 1), V4(192, 168, 0, 2), V6(1)},
                          port \in Ports}

InitPair == InitDns

NextPair == \E local \in PairAddrs, remote \in PairAddrs : MakePair(local, remote)

SpecPair == InitPair /\ [][NextPair]_vars

\* ------------------------------------------------------------------------
\* Properties of the registry
\* ------------------------------------------------------------------------

InSubnet(ip) == ip.v = 4 /\ ip.b[1] = 192 /\ ip.b[2] = 168

\* C1: any two distinct resolved hostnames have distinct addresses, every
\* address of the registry is an IPv4 address in 192.168.0.0/16, and the first
\* one assigned is 192.168.0.1.  (The numeral entries "1".."n" have the
\* pairwise distinct addresses IpOf(1)..IpOf(n), n < 2^16; each inserted
\* entry is compared with all entries.)
C1_DistinctInSubnet ==
    /\ \A i \in 1..Len(dns.names) :
          /\ NamesWithIp(dns, dns.names[i].ip) = {dns.filled + i}
          /\ InSubnet(dns.names[i].ip)
    /\ NamesLen(dns) >= 1 => NamesAt(dns, 1).ip = V4(192, 168, 0, 1)

\* C2: once lookup(h) has returned A, the registry keeps mapping h to A and
\* every later lookup(h) or lookup_many(h) returns A, whatever calls happen in
\* between; the repeated lookup leaves the entries and the counter as they
\* were.
C2_LookupIdempotent ==
    /\ \A r \in first :
          /\ NamesGet(dns, r.name) = <<r.ip>>
          /\ (ret.op = "lookup" /\ ret.arg = r.name) => ret.val = <<r.ip>>
          /\ (ret.op = "lookup_many" /\ ret.arg = r.name) => ret.val = <<<<r.ip>>>>
    /\ (ret.op \in {"lookup", "lookup_many"} /\ ret.known) => dns = ret.pre

\* a lookup of the first hostname repeated after a second one was inserted
C2_Witness ==
    /\ ret.op = "lookup"
    /\ ret.known
    /\ Len(order) >= 2
    /\ ret.arg = order[1]
    /\ ret.val # <<>>

\* C3: for every hostname h of the registry reverse(lookup(h)) is h, and
\* reverse returns the first-registered hostname with the given address.
C3_ReverseRoundTrip ==
    /\ \A h \in LookupNames :
          NamesGet(dns, h) # <<>> => DnsReverse(dns, NamesGet(dns, h)[1]) = <<h>>
    /\ (ret.op = "lookup" /\ ret.val # <<>>) => DnsReverse(dns, ret.val[1]) = <<ret.arg>>

\* the position of hostname h in the order of first reference, the numerals
\* of the registry of Init first
Rank(h) ==
    IF Preloaded(h) THEN NumeralOf(h)
    ELSE dns.filled + (CHOOSE i \in 1..Len(order) : order[i] = h)

\* the address of the k-th hostname: 192.168.(k mod 2^16 >> 8).(k & 0xFF)
RankIp(k) == [v |-> 4, b |-> <<192, 168, (k % U16) \div U8, k % U8>>]

\* C4: the registry is a function of the sequence of first references: the
\* k-th hostname first referenced (after the n numeral entries) holds the
\* address of counter value (n + k) mod 2^16, in insertion order, the counter
\* is the number of entries plus one (mod 2^16), and every lookup returns the
\* address given by the hostname's rank.
C4_Deterministic ==
    /\ dns.names = [i \in 1..Len(order) |->
                       [name |-> order[i], ip |-> RankIp(dns.filled + i)]]
    /\ dns.next = (dns.filled + Len(order) + 1) % U16
    /\ (ret.op = "lookup" /\ ret.val # <<>>) => ret.val = <<RankIp(Rank(ret.arg))>>

\* two registries (fresh or not) that got a repeated and a new lookup
C4_Witness ==
    /\ Len(order) = MaxNames
    /\ ret.op = "lookup"
    /\ ret.known
    /\ ret.arg = order[2]

\* C5: lookup and lookup_many of a literal IP, and to_socket_addr of a
\* literal socket address or (IP, port) pair, return the input and leave the
\* registry (entries and counter) unchanged.
C5_LiteralsUntouched ==
    /\ ret.op = "lookup_ip" => (ret.val = <<ret.arg>> /\ dns = ret.pre)
    /\ ret.op = "lookup_many_ip" => (ret.val = <<<<ret.arg>>>> /\ dns = ret.pre)
    /\ ret.op = "socket_addr" => (ret.val = <<ret.arg>> /\ dns = ret.pre)
    /\ ret.op = "ip_port" =>
          (ret.val = <<SockAddr(ret.arg.ip, ret.arg.port)>> /\ dns = ret.pre)

\* a literal IP looked up in a registry that holds hostnames
C5_Witness ==
    /\ ret.op \in {"lookup_ip", "lookup_many_ip"}
    /\ Len(dns.names) > 0
    /\ ret.val # <<>>

\* the IP a host string denotes literally, brackets of "[v6]" removed
HostLiteral(h) ==
    IF Len(h) >= 2 /\ h[1] = "[" /\ h[Len(h)] = "]"
    THEN ParseIpv6(SubSeq(h, 2, Len(h) - 1))
    ELSE ParseIpAddr(h)

\* what lookup returns for the host of a text in registry d: the literal for
\* an IP literal, else the (possibly new) address of the hostname
LookupOfHost(d, h) ==
    IF HostLiteral(h) # <<>> THEN IpToIpAddr(d, HostLiteral(h)[1]).val
    ELSE StrToIpAddr(d, h, overflowChecks).val

C7_ResolutionFaultAborts ==
    /\ (ret.op = "pair" /\ ParseIpAddr(ret.arg.host) = <<>>
                        /\ NamesGet(ret.pre, ret.arg.host) = <<>>) =>
          (ret.val = <<>> /\ dns = ret.pre)
    /\ (ret.op = "text" /\ Positions(ret.arg, ":") = {}) =>
          (ret.val = <<>> /\ dns = ret.pre)
    /\ (ret.op = "text" /\ Positions(ret.arg, ":") # {}) =>
          LET sp == RSplitOnce(ret.arg, ":")[1]
          IN  (\/ ParseU16(sp.port) = <<>>
               \/ HostLiteral(sp.host) = <<>> /\ NamesGet(ret.pre, sp.host) = <<>>) =>
                  (ret.val = <<>> /\ dns = ret.pre)

\* "foo:80" aborted in a registry that holds other hostnames
C7_Witness ==
    /\ ret.op = "text"
    /\ ret.arg = Join(foo, Dec(80))
    /\ ret.val = <<>>
    /\ Len(dns.names) > 0

\* C8 as stated: a (host, port) pair or text whose host is no IP literal
\* leaves the host in the registry and returns its address with the port.
C8_AllocatesOnFirstReference ==
    /\ (ret.op = "pair" /\ ParseIpAddr(ret.arg.host) = <<>>) =>
          /\ NamesGet(dns, ret.arg.host) # <<>>
          /\ ret.val = <<SockAddr(NamesGet(dns, ret.arg.host)[1], ret.arg.port)>>
    /\ \A h \in TextHosts, p \in Ports :
          (ret.op = "text" /\ ret.arg = Join(h, Dec(p)) /\ HostLiteral(h) = <<>>) =>
              /\ NamesGet(dns, h) # <<>>
              /\ ret.val = <<SockAddr(NamesGet(dns, h)[1], p)>>

\* C8, amended: a (host, port) pair or text whose host is no IP literal
\* returns the registry's address of the host with the port when the hostname
\* is in the registry, and aborts when it is not; it never adds an entry.
C8_ResolvesRegisteredOnly ==
    /\ (ret.op = "pair" /\ ParseIpAddr(ret.arg.host) = <<>>) =>
          /\ dns = ret.pre
          /\ ret.val = IF NamesGet(ret.pre, ret.arg.host) # <<>>
                       THEN <<SockAddr(NamesGet(ret.pre, ret.arg.host)[1], ret.arg.port)>>
                       ELSE <<>>
    /\ \A h \in TextHosts, p \in Ports :
          (ret.op = "text" /\ ret.arg = Join(h, Dec(p)) /\ HostLiteral(h) = <<>>) =>
              /\ dns = ret.pre
              /\ ret.val = IF NamesGet(ret.pre, h) # <<>>
                           THEN <<SockAddr(NamesGet(ret.pre, h)[1], p)>>
                           ELSE <<>>

\* the pair ("bar", port) resolved in a registry whose first entry is another
\* hostname
C8_Witness ==
    /\ ret.op = "pair"
    /\ ret.arg.host = bar
    /\ ret.val # <<>>
    /\ Len(order) >= 2
    /\ order[1] # bar

\* C19: the 16-bit counter starts at 1, only ever increases, never issues
\* the value 0 and never issues the same value twice, however many hostnames
\* are looked up for the first time; the k-th newly referenced hostname is
\* given 192.168.(k >> 8).(k & 0xFF).  (Stated for the hostnames inserted
\* during the behaviour, each compared with the first, the second and the
\* one before it.)
C19_CounterNeverReused ==
    /\ dns.next >= 1
    /\ (ret.op # "none" => dns.next >= ret.pre.next)
    /\ \A i \in (dns.filled + 1)..NamesLen(dns) :
        /\ NamesAt(dns, i).ip # V4(192, 168, 0, 0)
        /\ NamesAt(dns, i).ip = V4(192, 168, i \div U8, i % U8)
        /\ \A j \in {1, 2, i - 1} :
            (j >= 1 /\ j < i) => NamesAt(dns, j).ip # NamesAt(dns, i).ip

\* ------------------------------------------------------------------------
\* Properties of the UDP socket
\* ------------------------------------------------------------------------

Bindable(ip) == IsUnspecified(ip) \/ IsLoopback(ip)

\* C9 as stated: bind to an unspecified or loopback address succeeds and
\* registers the address on the active host; bind to another address fails
\* with nothing created or registered and the simulation running.
C9_BindUnspecifiedOrLoopback ==
    (io.op = "bind" /\ io.val # <<>>) =>
        LET a == io.val[1].addr
        IN  IF Bindable(a.ip)
            THEN /\ io.val[1].ok
                 /\ a \in binds[io.pre.current]
            ELSE /\ ~io.val[1].ok
                 /\ binds = io.pre.binds
                 /\ sockets = io.pre.sockets
                 /\ running

\* C9, amended: bind to an unspecified or loopback address that is not
\* already bound on the active host succeeds, registers the address on that
\* host and returns a socket with that local address; bind to an address
\* already bound or to another concrete address returns a failure: no socket
\* is created, nothing is registered, the simulation keeps running.
C9_BindUnlessInUse ==
    (io.op = "bind" /\ io.val # <<>>) =>
        LET a == io.val[1].addr
        IN  IF Bindable(a.ip) /\ a \notin io.pre.binds[io.pre.current]
            THEN /\ io.val[1].ok
                 /\ binds = [io.pre.binds EXCEPT ![io.pre.current] = @ \cup {a}]
                 /\ sockets = Append(io.pre.sockets,
                                     [local_addr |-> a, host |-> io.pre.current])
                 /\ running
            ELSE /\ ~io.val[1].ok
                 /\ binds = io.pre.binds
                 /\ sockets = io.pre.sockets
                 /\ running

\* a bind to a routable address failed after a bind to 0.0.0.0:80 succeeded
C9_Witness ==
    /\ io.op = "bind"
    /\ io.val # <<>>
    /\ ~io.val[1].ok
    /\ io.val[1].err = "AddrNotAvailable"
    /\ Len(sockets) >= 1
    /\ IsUnspecified(sockets[1].local_addr.ip)

\* C10: a send_to of an N-byte buffer that succeeds returns N and hands
\* exactly one envelope to the simulation context: tagged UDP, its payload
\* the N bytes of the buffer, for the resolved destination.
C10_SendWhole ==
    (io.op = "send_to" /\ io.val # <<>>) =>
        /\ io.val[1].ok
        /\ io.val[1].n = Len(io.buf)
        /\ Len(sent) = Len(io.pre.sent) + 1
        /\ SubSeq(sent, 1, Len(io.pre.sent)) = io.pre.sent
        /\ sent[Len(sent)].message.protocol = "Udp"
        /\ sent[Len(sent)].message.payload = io.buf
        /\ <<sent[Len(sent)].dst>> = ToSocketAddr(dns, io.arg)

\* b"ping" sent to a host given by name
C10_Witness ==
    /\ io.op = "send_to"
    /\ io.val # <<>>
    /\ io.buf = ping
    /\ io.arg = Pair(bar, 80)

\* an empty buffer sent: N = 0
C10_WitnessEmpty ==
    /\ io.op = "send_to"
    /\ io.val # <<>>
    /\ Len(io.buf) = 0

\* C15: the source address of the envelope sent by send_to is (the active
\* host's own address, the bound port) when the socket is bound to an
\* unspecified IP, and exactly the bound local address otherwise, loopback
\* included; the port is the bound one in both cases, and send_to never
\* changes the socket's local address.
C15_SourceAddress ==
    (io.op = "send_to" /\ io.val # <<>>) =>
        LET local == io.pre.sockets[io.sock].local_addr
            src   == sent[Len(sent)].src
        IN  /\ Len(sent) = Len(io.pre.sent) + 1
            /\ IsUnspecified(local.ip) =>
                   src = [ip |-> io.pre.current, port |-> local.port]
            /\ ~IsUnspecified(local.ip) => src = local
            /\ src.port = local.port
            /\ sockets = io.pre.sockets

\* a socket bound to the loopback address has sent
C15_Witness ==
    /\ io.op = "send_to"
    /\ io.val # <<>>
    /\ IsLoopback(sockets[io.sock].local_addr.ip)
    /\ sent[Len(sent)].src.ip = V4(127, 0, 0, 1)

\* a socket bound to the unspecified address has sent while a host other
\* than the one it was bound on is active
C15_WitnessUnspecified ==
    /\ io.op = "send_to"
    /\ io.val # <<>>
    /\ IsUnspecified(sockets[io.sock].local_addr.ip)
    /\ sockets[io.sock].host # io.pre.current
    /\ sent[Len(sent)].src.ip = io.pre.current

\* ------------------------------------------------------------------------
\* Properties of socket pairs
\* ------------------------------------------------------------------------

\* C20: SocketPair::new(local, remote) aborts whenever local = remote, so
\* every SocketPair that exists has local # remote; for local # remote it
\* returns the pair with both fields as given.
C20_PairDistinct ==
    /\ \A p \in pairs : p.local # p.remote
    /\ io.op = "pair" =>
        /\ io.arg.local = io.arg.remote => io.val = <<>>
        /\ io.arg.local # io.arg.remote =>
            /\ Len(io.val) = 1
            /\ io.val[1].local = io.arg.local
            /\ io.val[1].remote = io.arg.remote
            /\ io.val[1] \in pairs

\* a pair exists and the last call, given equal addresses, aborted
C20_Witness ==
    /\ io.op = "pair"
    /\ io.arg.local = io.arg.remote
    /\ io.val = <<>>
    /\ pairs # {}

\* ------------------------------------------------------------------------
\* Properties of socket teardown
\* ------------------------------------------------------------------------

\* whether a socket that is alive holds address x on host h
HeldBy(socks, gone, h, x) ==
    \E i \in 1..Len(socks) :
        i \notin gone /\ socks[i].host = h /\ socks[i].local_addr = x

\* whether a socket that held address x on host h was dropped while a
\* simulation was set
Released(h, x) ==
    \E k \in 1..Len(unbinds) :
        /\ sockets[unbinds[k].sock].host = h
        /\ sockets[unbinds[k].sock].local_addr = x

\* C12: after a socket bound to address X was dropped while the simulation
\* was active, a bind to X by another socket on that host succeeds (unless a
\* socket that is alive holds X there): release always makes the address
\* available again.
C12_RebindAfterDrop ==
    /\ (io.op = "bind" /\ io.val # <<>>) =>
        ((/\ Released(io.pre.current, io.val[1].addr)
          /\ ~HeldBy(io.pre.sockets, io.pre.dropped, io.pre.current, io.val[1].addr))
            => io.val[1].ok)
    /\ (io.op = "drop" /\ io.pre.running) =>
        sockets[io.sock].local_addr \notin binds[sockets[io.sock].host]

\* C14: for every socket that a successful bind returned, teardown
\* unregisters the socket's local address from the stack of the host on which
\* it was bound, exactly once, also when the socket is dropped after the
\* simulation has ended or while a different host is the active one.
C14_UnbindsOwnHostOnce ==
    \A i \in dropped :
        /\ Cardinality({k \in 1..Len(unbinds) :
               /\ unbinds[k].sock = i
               /\ unbinds[k].host = sockets[i].host
               /\ unbinds[k].addr = sockets[i].local_addr}) = 1
        /\ Cardinality({k \in 1..Len(unbinds) : unbinds[k].sock = i}) = 1

\* ------------------------------------------------------------------------
\* Properties of receiving
\* ------------------------------------------------------------------------

\* the envelope that the last recv_from to return was given
Returned == hist[io.sock].deq[Len(hist[io.sock].deq)].env

\* C11: recv_from on an envelope with payload P into a buffer of length L
\* returns count = min(L, |P|) with the origin that was enqueued with the
\* envelope; the first count bytes of the buffer are the prefix of P, the
\* rest of P is discarded without error, and the bytes of the buffer beyond
\* count are left as they were.
C11_RecvTruncates ==
    io.op = "recv_from" =>
        LET P == Returned.payload
            L == Len(io.arg.buf)
            n == IF L < Len(P) THEN L ELSE Len(P)
        IN  /\ Returned \in {hist[io.sock].enq[k] : k \in 1..Len(hist[io.sock].enq)}
            /\ io.val = <<[n |-> n, origin |-> Returned.origin]>>
            /\ Len(io.buf) = L
            /\ \A k \in 1..L : io.buf[k] = IF k <= n THEN P[k] ELSE io.arg.buf[k]

\* b"ping" was received into a buffer of two bytes, and into one of five
C11_Witness ==
    /\ io.op = "recv_from"
    /\ Returned.payload = ping
    /\ io.buf = <<112, 105>>
    /\ io.val[1].n = 2

C11_WitnessLonger ==
    /\ io.op = "recv_from"
    /\ Returned.payload = ping
    /\ io.buf = <<112, 105, 110, 103, 7>>
    /\ io.val[1].n = 4

\* the envelopes that recv_from calls on socket i returned, in order
Dequeued(i) == [k \in 1..Len(hist[i].deq) |-> hist[i].deq[k].env]

\* C16: per socket, the envelopes returned by successive recv_from
\* completions are a prefix of the envelopes in the order in which the
\* context enqueued them, for every interleaving of enqueues and calls: none
\* out of order, none lost, none twice.
C16_Fifo ==
    \A i \in 1..Len(hist) :
        /\ Len(Dequeued(i)) <= Len(hist[i].enq)
        /\ Dequeued(i) = SubSeq(hist[i].enq, 1, Len(Dequeued(i)))
        /\ hist[i].enq = Dequeued(i) \o rx[i].queue

\* two different envelopes were enqueued and both were returned
C16_Witness ==
    /\ Len(hist[1].deq) = 2
    /\ hist[1].deq[1].env # hist[1].deq[2].env
    /\ io.op = "recv_from"

\* the tasks that hold the guard of socket i and wait on its channel
Receiving(i) == {t \in DOMAIN tasks : tasks[t].pc = "recv" /\ tasks[t].sock = i}

\* C17: of the tasks that call recv_from on one socket at the same time, at
\* most one holds the receive guard and waits on the queue; every enqueued
\* envelope is returned to exactly one caller; the context can enqueue while
\* a receiver holds the guard, which the enqueue neither waits for nor
\* changes.
C17_OneReceiver ==
    /\ \A i \in 1..Len(rx) :
        /\ Cardinality(Receiving(i)) <= 1
        /\ \A t \in Receiving(i) : rx[i].holder = t
        /\ \A k \in 1..Len(rx[i].waiters) : tasks[rx[i].waiters[k]].pc = "lock"
        /\ Len(hist[i].deq) <= Len(hist[i].enq)
        /\ (rx[i].holder # 0 /\ running /\ i \notin dropped /\ Enqueued < MaxQueued)
              => \A env \in Envelopes : ENABLED ContextEnqueue(i, env)
    /\ io.op = "enqueue" =>
        /\ rx[io.sock].queue = Append(io.pre.rx[io.sock].queue, io.arg)
        /\ rx[io.sock].holder = io.pre.rx[io.sock].holder
        /\ tasks = io.pre.tasks

\* an envelope was enqueued while one task held the guard and another
\* waited for it
C17_Witness ==
    /\ io.op = "enqueue"
    /\ io.pre.rx[io.sock].holder # 0
    /\ io.pre.rx[io.sock].waiters # <<>>

\* C18: when a recv_from call is cancelled while it is suspended, waiting for
\* the guard or for an envelope, the queue of the socket and the registries
\* are as they were, no envelope is removed or lost, the guard is released,
\* and a later recv_from returns the envelope the cancelled call would have
\* returned: the oldest one not yet returned.
C18_CancelSafe ==
    /\ io.op = "cancel" =>
        /\ rx[io.sock].queue = io.pre.rx[io.sock].queue
        /\ hist[io.sock].enq = Dequeued(io.sock) \o rx[io.sock].queue
        /\ binds = io.pre.binds
        /\ dns = ret.pre
        /\ rx[io.sock].holder # io.arg.task
        /\ \A k \in 1..Len(rx[io.sock].waiters) : rx[io.sock].waiters[k] # io.arg.task
        /\ tasks[io.arg.task].pc = "idle"
        /\ (io.pre.rx[io.sock].holder = io.arg.task /\ io.pre.rx[io.sock].waiters = <<>>)
              => rx[io.sock].holder = 0
    /\ (io.op = "recv_from" /\ hist[io.sock].cancelled) =>
        /\ io.pre.rx[io.sock].queue # <<>>
        /\ Returned = Head(io.pre.rx[io.sock].queue)
        /\ Returned = hist[io.sock].enq[Len(hist[io.sock].deq)]

\* a call that held the guard was cancelled while the channel held an
\* envelope, and a later call returned that envelope
C18_Witness ==
    /\ io.op = "recv_from"
    /\ hist[io.sock].cancelled
    /\ Len(hist[io.sock].deq) = 1
    /\ Len(hist[io.sock].enq) = MaxQueued

\* a call that held the guard was cancelled while another call waited
C18_WitnessGuard ==
    /\ io.op = "cancel"
    /\ io.pre.tasks[io.arg.task].pc = "recv"
    /\ io.pre.rx[io.sock].waiters # <<>>
    /\ rx[io.sock].queue # <<>>

\* ------------------------------------------------------------------------
\* Properties of a datagram from one host to another
\* ------------------------------------------------------------------------

\* recv_from on socket 1 returned b"ping" with the address of a sender: port
\* 4000 of the host the sender was bound on
PingReceived ==
    (io.op = "recv_from" /\ io.sock = 1) =>
        /\ io.val[1].n = 4
        /\ io.buf = ping
        /\ \E j \in 2..Len(sockets) :
              /\ sockets[j].local_addr.port = 4000
              /\ io.val[1].origin = SockAddr(sockets[j].host, 4000)

\* C13 as stated: where "foo" resolves to A, binding a socket to "foo:4000"
\* succeeds, and after it sends b"ping" to a second socket bound at a literal
\* address, recv_from on the second socket returns (4, (A, 4000)) with the
\* buffer holding b"ping".
C13_BindByNameThenPing ==
    /\ (io.op = "bind" /\ io.arg = Text(Join(foo, Dec(4000)))) =>
        /\ io.val # <<>>
        /\ io.val[1].ok
    /\ PingReceived

\* C13, amended: where "foo" resolves to A, binding a socket to "foo:4000"
\* fails with AddrNotAvailable; binding it to "0.0.0.0:4000" on a host where
\* that address is free succeeds, and after it sends b"ping" from its host to
\* a second socket bound at the literal address 0.0.0.0:80 on host bar,
\* recv_from on the second socket into four bytes returns (4, (the sender's
\* host, 4000)) with the buffer holding b"ping".
C13_BindUnspecifiedThenPing ==
    /\ (io.op = "bind" /\ io.arg = Text(Join(foo, Dec(4000)))) =>
        io.val = <<[ok |-> FALSE, err |-> "AddrNotAvailable",
                    addr |-> SockAddr(V4(192, 168, 0, 1), 4000)]>>
    /\ (/\ io.op = "bind"
        /\ io.arg = Text(Join(any4, Dec(4000)))
        /\ ~HeldBy(io.pre.sockets, io.pre.dropped, io.pre.current,
                   SockAddr(V4(0, 0, 0, 0), 4000))) =>
        /\ io.val # <<>>
        /\ io.val[1].ok
    /\ PingReceived

\* the sender was bound on foo: recv_from returned (4, (A, 4000)) and b"ping"
C13_Witness ==
    /\ io.op = "recv_from"
    /\ io.sock = 1
    /\ io.val = <<[n |-> 4, origin |-> SockAddr(V4(192, 168, 0, 1), 4000)]>>
    /\ io.buf = ping

====
